---- MODULE Spec2Model ----
(***************************************************************************)
(* Model of the Kita log visualisation page (src/app/page.tsx): the entry  *)
(* collection, the Sequencer (getNumberedEntries), the Grouper             *)
(* (getTableGroups), the Resolver (drawConnectingLines) and the handlers   *)
(* that mutate the React state.                                            *)
(*                                                                         *)
(* A text is a sequence of lines.  A line is a record saying whether the   *)
(* line is whitespace only, which marker phrases it contains and which     *)
(* timestamp text it carries.  A timestamp text keeps the hour and the     *)
(* meridiem marker as written; date, minute, second and millisecond are    *)
(* held fixed (1/1/2025 h:00:00.000), so getTime() is counted in hours.    *)
(***************************************************************************)
EXTENDS Integers, Sequences, FiniteSets, TLC

VARIABLES logEntries, chatMessages, inputText, clock, timer, svgLines, lastOp

vars == <<logEntries, chatMessages, inputText, clock, timer, svgLines, lastOp>>

\* ---------------------------------------------------------------- bounds
MaxEntries == 3
MaxClock == 2
\* The largest entry collection under Spec, where the pending timers and
\* the drawn connectors multiply the states.
MaxShown == 2

\* ------------------------------------------------------------- constants
Undefined == -1
Infinity == 1000

Min(S) == CHOOSE x \in S : \A y \in S : x <= y
Max(S) == CHOOSE x \in S : \A y \in S : x >= y

\* Array.prototype.sort with a comparator key(a) - key(b), keys[i] being
\* the key of seq[i]: a stable sort, elements with equal keys keep their
\* input order.  (Appending the empty sequence makes TLC tabulate the
\* sequence once.)
StableSort(seq, keys) ==
  LET n == Len(seq)
      rank == [i \in 1..n |->
                 1 + Cardinality({j \in 1..n :
                       \/ keys[j] < keys[i]
                       \/ (keys[j] = keys[i] /\ j < i)})] \o << >>
  IN  [p \in 1..n |-> seq[CHOOSE i \in 1..n : rank[i] = p]] \o << >>

\* ----------------------------------------------------------------- texts
NoStamp == [hour |-> 0, ampm |-> ""]
Stamp(h, m) == [hour |-> h, ampm |-> m]

BlankLine == [blank |-> TRUE, req |-> FALSE, resp |-> FALSE, stamp |-> NoStamp]
LabelLine == [blank |-> FALSE, req |-> FALSE, resp |-> FALSE, stamp |-> NoStamp]
ReqLine(s) == [blank |-> FALSE, req |-> TRUE, resp |-> FALSE, stamp |-> s]
RespLine(s) == [blank |-> FALSE, req |-> FALSE, resp |-> TRUE, stamp |-> s]

EmptyText == << >>
WhitespaceText == <<BlankLine, BlankLine>>
TextWide == <<LabelLine, ReqLine(Stamp(12, "AM")), RespLine(Stamp(12, "PM"))>>
TextCross == <<LabelLine, BlankLine, ReqLine(Stamp(1, "AM")), RespLine(Stamp(1, "PM"))>>
TextRespOnly == <<LabelLine, ReqLine(Stamp(1, "pm")), RespLine(Stamp(12, "AM"))>>
TextNoMarker == <<LabelLine>>

Texts == {EmptyText, WhitespaceText, TextWide, TextCross, TextRespOnly,
          TextNoMarker}

\* String.prototype.trim() applied to a whole text, reduced to what the
\* handlers test: is anything left after trimming.
TrimIsEmpty(text) == \A i \in 1..Len(text) : text[i].blank

\* ------------------------------------------------------- Timestamp Parser
parseTimestamp(line) ==
  IF line.stamp # NoStamp /\ line.stamp.ampm \in {"AM", "PM"}
  THEN LET hours == line.stamp.hour
           ampm == line.stamp.ampm
       IN  IF ampm = "PM" /\ hours < 12 THEN hours + 12
           ELSE IF ampm = "AM" /\ hours = 12 THEN 0
           ELSE hours
  ELSE Undefined

\* ----------------------------------------------------------- Entry Parser
RECURSIVE ScanLines(_, _, _)
ScanLines(lines, k, acc) ==
  IF k > Len(lines) THEN acc
  ELSE LET line == lines[k]
           ts == parseTimestamp(line)
           a1 == IF line.req
                 THEN [acc EXCEPT !.hasRequest = TRUE,
                                  !.requestTimestamp =
                                     IF ts # Undefined THEN ts ELSE @]
                 ELSE acc
           a2 == IF line.resp
                 THEN [a1 EXCEPT !.hasResponse = TRUE,
                                 !.responseTimestamp =
                                    IF ts # Undefined THEN ts ELSE @]
                 ELSE a1
       IN  ScanLines(lines, k + 1, a2)

parseLogEntry(text) ==
  LET lines == SelectSeq(text, LAMBDA l : ~l.blank)
      firstLine == IF Len(lines) > 0 THEN lines[1] ELSE BlankLine
  IN  ScanLines(lines, 1,
                [rawText |-> text, firstColumn |-> firstLine,
                 hasRequest |-> FALSE, hasResponse |-> FALSE,
                 requestTimestamp |-> Undefined,
                 responseTimestamp |-> Undefined])

\* -------------------------------------------------------------- Sequencer
EventsOf(entry) ==
  (IF entry.hasRequest /\ entry.requestTimestamp # Undefined
   THEN <<[id |-> <<entry.id, "request">>, logEntryId |-> entry.id,
           type |-> "request", timestamp |-> entry.requestTimestamp]>>
   ELSE << >>)
  \o
  (IF entry.hasResponse /\ entry.responseTimestamp # Undefined
   THEN <<[id |-> <<entry.id, "response">>, logEntryId |-> entry.id,
           type |-> "response", timestamp |-> entry.responseTimestamp]>>
   ELSE << >>)

RECURSIVE allEvents(_)
allEvents(entries) ==
  IF entries = << >> THEN << >>
  ELSE EventsOf(Head(entries)) \o allEvents(Tail(entries))

EventTime(ev) == ev.timestamp

sortedEvents(entries) ==
  LET events == allEvents(entries)
  IN  StableSort(events,
                 [i \in 1..Len(events) |-> EventTime(events[i])] \o << >>)

\* Faulty variant: the rank is the 0-based index (index instead of index + 1).
eventNumberMap_zeroBased(sorted, key) ==
  LET hits == {i \in 1..Len(sorted) : sorted[i].id = key}
  IN  IF hits = {} THEN 0 ELSE Max(hits) - 1

\* eventNumberMap.get(key) || null : the map is filled in sorted order, so a
\* key set twice keeps the number of its last occurrence; 0 stands for null.
eventNumberMap(sorted, key) ==
  LET hits == {i \in 1..Len(sorted) : sorted[i].id = key}
  IN  IF hits = {} THEN 0 ELSE Max(hits)

getNumberedEntries(entries) ==
  IF Len(entries) = 0 THEN << >>
  ELSE LET sorted == sortedEvents(entries)
       IN  [i \in 1..Len(entries) |->
             LET entry == entries[i]
             IN  [id |-> entry.id,
                  rawText |-> entry.rawText,
                  firstColumn |-> entry.firstColumn,
                  hasRequest |-> entry.hasRequest,
                  hasResponse |-> entry.hasResponse,
                  timestamp |-> entry.timestamp,
                  requestTimestamp |-> entry.requestTimestamp,
                  responseTimestamp |-> entry.responseTimestamp,
                  requestNumber |->
                    IF entry.hasRequest /\ entry.requestTimestamp # Undefined
                    THEN eventNumberMap(sorted, <<entry.id, "request">>)
                    ELSE 0,
                  responseNumber |->
                    IF entry.hasResponse /\ entry.responseTimestamp # Undefined
                    THEN eventNumberMap(sorted, <<entry.id, "response">>)
                    ELSE 0]] \o << >>

numberedEntries == getNumberedEntries(logEntries)

\* ---------------------------------------------------------------- Grouper
getEntryNumbers(entry) ==
  (IF entry.requestNumber # 0 THEN <<entry.requestNumber>> ELSE << >>)
  \o (IF entry.responseNumber # 0 THEN <<entry.responseNumber>> ELSE << >>)

\* Faulty variant: an entry without numbers gets the range [0, 0].
getEntryRange_zero(entry) ==
  LET numbers == getEntryNumbers(entry)
      S == {numbers[i] : i \in 1..Len(numbers)}
  IN  IF Len(numbers) = 0 THEN [min |-> 0, max |-> 0]
      ELSE [min |-> Min(S), max |-> Max(S)]

getEntryRange(entry) ==
  LET numbers == getEntryNumbers(entry)
      S == {numbers[i] : i \in 1..Len(numbers)}
  IN  IF Len(numbers) = 0 THEN [min |-> Infinity, max |-> -Infinity]
      ELSE [min |-> Min(S), max |-> Max(S)]

RangeMin(entry) == getEntryRange(entry).min

\* entries.sort((a, b) => getEntryRange(a).min - getEntryRange(b).min)
sortByRangeMin(entries) ==
  StableSort(entries,
             [i \in 1..Len(entries) |-> RangeMin(entries[i])] \o << >>)

\* Faulty variant: a range that only touches the end of the group counts as
\* overlapping.
overlaps_adjacent(entryRange, group) ==
  ~(entryRange.max < group.minNumber \/ entryRange.min > group.maxNumber + 1)

\* Faulty variant: only a range that lies within the range of the group
\* counts as overlapping.
overlaps_contained(entryRange, group) ==
  entryRange.min >= group.minNumber /\ entryRange.max <= group.maxNumber

overlaps(entryRange, group) ==
  ~(entryRange.max < group.minNumber \/ entryRange.min > group.maxNumber)

\* Faulty variant: an entry without numbers is skipped instead of being given a
\* group of its own.
placeEntry_dropsUnnumbered(groups, entry) ==
  LET entryRange == getEntryRange(entry)
      fits == {g \in 1..Len(groups) : overlaps(entryRange, groups[g])}
  IN  IF entryRange.min = Infinity \/ entryRange.max = -Infinity
      THEN groups
      ELSE IF fits # {}
      THEN LET g == Min(fits)
           IN  [groups EXCEPT
                  ![g] = [id |-> @.id,
                          entries |-> Append(@.entries, entry),
                          minNumber |-> Min({@.minNumber, entryRange.min}),
                          maxNumber |-> Max({@.maxNumber, entryRange.max})]]
      ELSE Append(groups, [id |-> Len(groups) + 1, entries |-> <<entry>>,
                           minNumber |-> entryRange.min,
                           maxNumber |-> entryRange.max])

\* Faulty variant: a joining entry widens minNumber but not maxNumber.
placeEntry_keepsMax(groups, entry) ==
  LET entryRange == getEntryRange(entry)
      fits == {g \in 1..Len(groups) : overlaps(entryRange, groups[g])}
  IN  IF entryRange.min = Infinity \/ entryRange.max = -Infinity
      THEN Append(groups, [id |-> Len(groups) + 1, entries |-> <<entry>>,
                           minNumber |-> 0, maxNumber |-> 0])
      ELSE IF fits # {}
      THEN LET g == Min(fits)
           IN  [groups EXCEPT
                  ![g] = [id |-> @.id,
                          entries |-> Append(@.entries, entry),
                          minNumber |-> Min({@.minNumber, entryRange.min}),
                          maxNumber |-> @.maxNumber]]
      ELSE Append(groups, [id |-> Len(groups) + 1, entries |-> <<entry>>,
                           minNumber |-> entryRange.min,
                           maxNumber |-> entryRange.max])

\* One iteration of sortedEntries.forEach: the entry joins the first group
\* (in creation order) whose range overlaps its own, else opens a new group.
placeEntry(groups, entry) ==
  LET entryRange == getEntryRange(entry)
      fits == {g \in 1..Len(groups) : overlaps(entryRange, groups[g])}
  IN  IF entryRange.min = Infinity \/ entryRange.max = -Infinity
      THEN Append(groups, [id |-> Len(groups) + 1, entries |-> <<entry>>,
                           minNumber |-> 0, maxNumber |-> 0])
      ELSE IF fits # {}
      THEN LET g == Min(fits)
           IN  [groups EXCEPT
                  ![g] = [id |-> @.id,
                          entries |-> Append(@.entries, entry),
                          minNumber |-> Min({@.minNumber, entryRange.min}),
                          maxNumber |-> Max({@.maxNumber, entryRange.max})]]
      ELSE Append(groups, [id |-> Len(groups) + 1, entries |-> <<entry>>,
                           minNumber |-> entryRange.min,
                           maxNumber |-> entryRange.max])

RECURSIVE placeAll(_, _)
placeAll(groups, sorted) ==
  IF sorted = << >> THEN groups
  ELSE placeAll(placeEntry(groups, Head(sorted)), Tail(sorted))

GroupMin(group) == group.minNumber

getTableGroups(numbered) ==
  IF Len(numbered) = 0 THEN << >>
  ELSE LET sortedEntries == sortByRangeMin(numbered)
           groups == placeAll(<< >>, sortedEntries)
           inner == [g \in 1..Len(groups) |->
                       [groups[g] EXCEPT !.entries = sortByRangeMin(@)]]
                    \o << >>
       IN  StableSort(inner,
                      [g \in 1..Len(inner) |-> GroupMin(inner[g])] \o << >>)

tableGroups == getTableGroups(numberedEntries)

\* --------------------------------------------------------------- Resolver
\* The refs point at the container and the svg only while the table branch
\* of the render is mounted (tableGroups.length # 0).
tableContainerRef(groups) == Len(groups) # 0
svgRef(groups) == Len(groups) # 0

LabelsOfEntry(entry) ==
  (IF entry.requestNumber # 0
   THEN <<[number |-> entry.requestNumber, type |-> "request"]>> ELSE << >>)
  \o (IF entry.responseNumber # 0
      THEN <<[number |-> entry.responseNumber, type |-> "response"]>>
      ELSE << >>)

RECURSIVE LabelsOfEntries(_)
LabelsOfEntries(entries) ==
  IF entries = << >> THEN << >>
  ELSE LabelsOfEntry(Head(entries)) \o LabelsOfEntries(Tail(entries))

RECURSIVE LabelsOfGroups(_)
LabelsOfGroups(groups) ==
  IF groups = << >> THEN << >>
  ELSE LabelsOfEntries(Head(groups).entries) \o LabelsOfGroups(Tail(groups))

PositionNumber(p) == p.number

getAllNumberPositions(groups) ==
  IF ~tableContainerRef(groups) THEN << >>
  ELSE LET positions == LabelsOfGroups(groups)
       IN  StableSort(positions,
                      [i \in 1..Len(positions) |->
                         PositionNumber(positions[i])] \o << >>)

LineKind(current, next) ==
  IF current.type = "request" /\ next.type = "request" THEN "request"
  ELSE IF current.type = "response" /\ next.type = "response" THEN "response"
  ELSE "mixed"

RECURSIVE linesFrom(_, _)
linesFrom(positions, i) ==
  IF i > Len(positions) - 1 THEN << >>
  ELSE (IF positions[i + 1].number = positions[i].number + 1
        THEN <<[from |-> positions[i].number, to |-> positions[i + 1].number,
                kind |-> LineKind(positions[i], positions[i + 1])]>>
        ELSE << >>)
       \o linesFrom(positions, i + 1)

\* The content of the svg after drawConnectingLines ran on the layout of
\* the given groups; old is the content before the call.
drawConnectingLines(groups, old) ==
  IF ~svgRef(groups) \/ ~tableContainerRef(groups) THEN old
  ELSE linesFrom(getAllNumberPositions(groups), 1)

\* ------------------------------------------------------------ redraw effect
\* timer is the list of the pending timers of the redraw effect, oldest
\* first; a timer is "fresh" when it was set and "due" once its 300 ms
\* have passed.

\* Faulty variant: the effect has no cleanup, a pending timer is kept (up to
\* two timers).
redrawEffect_noCleanup(pending) ==
  IF Len(pending) < 2 THEN Append(pending, "fresh") ELSE pending

\* A render re-runs the redraw effect (its dependencies numberedEntries and
\* tableGroups are new arrays in every render): the cleanup of the previous
\* run clears the timer set last, if it is still pending, and the new run
\* sets a timer.
redrawEffect(pending) ==
  LET cleared == IF pending # << >>
                 THEN SubSeq(pending, 1, Len(pending) - 1) ELSE pending
  IN  Append(cleared, "fresh")

\* --------------------------------------------------------------- handlers
\* lastOp is a history variable: "send" after a call of handleSendMessage,
\* "clear" after clearAllData on a non-empty collection, "clearEmpty" after
\* clearAllData on an empty one, "resize" after handleResize, "none" after
\* any other step.
Init ==
  /\ logEntries = << >>
  /\ chatMessages = << >>
  /\ inputText = EmptyText
  /\ clock = 0
  /\ timer = <<"fresh">>
  /\ svgLines = << >>
  /\ lastOp = "none"

\* textarea onChange: setInputText; the re-render re-runs the redraw
\* effect, whose cleanup clears the pending timer and which sets a new one.
onChange ==
  \E text \in Texts :
    /\ text # inputText
    /\ inputText' = text
    /\ timer' = redrawEffect(timer)
    /\ lastOp' = "none"
    /\ UNCHANGED <<logEntries, chatMessages, clock, svgLines>>

\* Faulty variant: the test of inputText.trim() is missing.
handleSendMessage_noGuard ==
  /\ Len(logEntries) < MaxEntries
  /\ \E now \in {clock, clock + 1} \cap (0..MaxClock) :
       LET userMessage == [id |-> now, text |-> inputText,
                           isUser |-> TRUE, timestamp |-> now]
           parsedEntry == parseLogEntry(inputText)
           newLogEntry == [id |-> now,
                           timestamp |-> now,
                           rawText |-> parsedEntry.rawText,
                           firstColumn |-> parsedEntry.firstColumn,
                           hasRequest |-> parsedEntry.hasRequest,
                           hasResponse |-> parsedEntry.hasResponse,
                           requestTimestamp |-> parsedEntry.requestTimestamp,
                           responseTimestamp |-> parsedEntry.responseTimestamp]
       IN  /\ logEntries' = Append(logEntries, newLogEntry)
           /\ chatMessages' = Append(chatMessages, userMessage)
           /\ clock' = now
  /\ inputText' = EmptyText
  /\ timer' = redrawEffect(timer)
  /\ lastOp' = "send"
  /\ UNCHANGED svgLines

\* clock is the last value read from Date.now(); the call reads a value
\* now that is the same or later (the reads of lines 413-424 within one
\* call are one value).  The ids are only compared for equality, so every
\* later value is counted as the next one.
handleSendMessage ==
  IF TrimIsEmpty(inputText)
  THEN /\ lastOp' = "send"
       /\ UNCHANGED <<logEntries, chatMessages, inputText, clock, timer,
                      svgLines>>
  ELSE /\ Len(logEntries) < MaxEntries
       /\ \E now \in {clock, clock + 1} \cap (0..MaxClock) :
            LET userMessage == [id |-> now, text |-> inputText,
                                isUser |-> TRUE, timestamp |-> now]
                parsedEntry == parseLogEntry(inputText)
                newLogEntry == [id |-> now,
                                timestamp |-> now,
                                rawText |-> parsedEntry.rawText,
                                firstColumn |-> parsedEntry.firstColumn,
                                hasRequest |-> parsedEntry.hasRequest,
                                hasResponse |-> parsedEntry.hasResponse,
                                requestTimestamp |->
                                  parsedEntry.requestTimestamp,
                                responseTimestamp |->
                                  parsedEntry.responseTimestamp]
            IN  /\ logEntries' = Append(logEntries, newLogEntry)
                /\ chatMessages' = Append(chatMessages, userMessage)
                /\ clock' = now
       /\ inputText' = EmptyText
       /\ timer' = redrawEffect(timer)
       /\ lastOp' = "send"
       /\ UNCHANGED svgLines

\* Faulty variant: only the chat messages are cleared.
clearAllData_chatOnly ==
  /\ chatMessages' = << >>
  /\ timer' = redrawEffect(timer)
  /\ lastOp' = (IF logEntries = << >> THEN "clearEmpty" ELSE "clear")
  /\ UNCHANGED <<logEntries, svgLines, inputText, clock>>

\* setLogEntries([]) unmounts the table container and its svg.
clearAllData ==
  /\ logEntries' = << >>
  /\ chatMessages' = << >>
  /\ svgLines' = << >>
  /\ timer' = redrawEffect(timer)
  /\ lastOp' = (IF logEntries = << >> THEN "clearEmpty" ELSE "clear")
  /\ UNCHANGED <<inputText, clock>>

\* The 300 ms of the pending timers pass.
delayElapses ==
  /\ \E i \in 1..Len(timer) : timer[i] = "fresh"
  /\ timer' = [i \in 1..Len(timer) |-> "due"] \o << >>
  /\ lastOp' = "none"
  /\ UNCHANGED <<logEntries, chatMessages, inputText, clock, svgLines>>

\* The oldest timer of the redraw effect expires and its callback runs.
redrawTimer ==
  /\ timer # << >>
  /\ Head(timer) = "due"
  /\ timer' = Tail(timer)
  /\ svgLines' = drawConnectingLines(tableGroups, svgLines)
  /\ lastOp' = "none"
  /\ UNCHANGED <<logEntries, chatMessages, inputText, clock>>

\* Faulty variant: the listener sets state to have the page rendered again,
\* which runs the redraw effect.
handleResize_rerender ==
  /\ svgLines' = drawConnectingLines(tableGroups, svgLines)
  /\ timer' = redrawEffect(timer)
  /\ lastOp' = "resize"
  /\ UNCHANGED <<logEntries, chatMessages, inputText, clock>>

\* The resize listener calls drawConnectingLines directly; no state is set,
\* so there is no render and the redraw effect does not run.
handleResize ==
  /\ svgLines' = drawConnectingLines(tableGroups, svgLines)
  /\ lastOp' = "resize"
  /\ UNCHANGED <<logEntries, chatMessages, inputText, clock, timer>>

Next ==
  \/ onChange
  \/ (TrimIsEmpty(inputText) \/ Len(logEntries) < MaxShown)
       /\ handleSendMessage
  \/ clearAllData
  \/ delayElapses
  \/ redrawTimer
  \/ handleResize

Spec == Init /\ [][Next]_vars

\* The handlers that write the entry collection or the values it is built
\* from, with collections of up to MaxEntries entries.  delayElapses,
\* redrawTimer and handleResize write svgLines and timer only, and no handler
\* reads these to compute the entry collection, so this specification
\* reaches every entry collection (with every input text and clock reading)
\* that Spec reaches.
NextData ==
  \/ onChange
  \/ handleSendMessage
  \/ clearAllData

SpecData == Init /\ [][NextData]_vars

\* The Timestamp Parser on its own: the textarea holds one request line
\* with a timestamp of any hour of the 12-hour clock and a meridiem marker
\* in some letter case, or with no timestamp, and the line is submitted.
Hours == 1..12
Meridiems == {"AM", "PM", "am", "pm", "Am", "pM"}

ParseLines ==
  {ReqLine(Stamp(h, m)) : h \in Hours, m \in Meridiems} \cup {ReqLine(NoStamp)}

ParseTexts == {<<line>> : line \in ParseLines}

InitParse ==
  /\ logEntries = << >>
  /\ chatMessages = << >>
  /\ inputText \in ParseTexts
  /\ clock = 0
  /\ timer = <<"fresh">>
  /\ svgLines = << >>
  /\ lastOp = "none"

NextParse == handleSendMessage

SpecParse == InitParse /\ [][NextParse]_vars

\* ------------------------------------------------- vocabulary of the claims
Kinds == {"request", "response"}

HasEvent(entry, kind) ==
  IF kind = "request"
  THEN entry.hasRequest /\ entry.requestTimestamp # Undefined
  ELSE entry.hasResponse /\ entry.responseTimestamp # Undefined

TimeOf(entry, kind) ==
  IF kind = "request" THEN entry.requestTimestamp
  ELSE entry.responseTimestamp

NumberOf(entry, kind) ==
  IF kind = "request" THEN entry.requestNumber ELSE entry.responseNumber

\* The events of the current collection: (position of the entry, kind).
EventSlots ==
  {s \in (1..Len(logEntries)) \X Kinds : HasEvent(logEntries[s[1]], s[2])}

\* The sides of the numbered entries that carry a number.
NumberSlots ==
  LET numbered == numberedEntries
  IN  {s \in (1..Len(numbered)) \X Kinds : NumberOf(numbered[s[1]], s[2]) # 0}

\* C1: dense ranks.  With E events in the collection, every value of 1..E
\* is the number of exactly one entry side and no side carries any other
\* value.
C1_DenseRanks ==
  LET E == Cardinality(EventSlots)
      numbered == numberedEntries
      slots == NumberSlots
  IN  /\ \A s \in slots : NumberOf(numbered[s[1]], s[2]) \in 1..E
      /\ \A n \in 1..E :
            Cardinality({s \in slots : NumberOf(numbered[s[1]], s[2]) = n})
              = 1

\* C2: monotonic ordering.  Of two events with timestamps t1 < t2 the first
\* has the strictly smaller number.
C2_MonotonicOrdering ==
  LET numbered == numberedEntries
  IN  \A s1 \in EventSlots : \A s2 \in EventSlots :
         TimeOf(logEntries[s1[1]], s1[2]) < TimeOf(logEntries[s2[1]], s2[2])
           => NumberOf(numbered[s1[1]], s1[2])
                < NumberOf(numbered[s2[1]], s2[2])

AllIdsDistinct(entries) ==
  \A i \in 1..Len(entries) : \A j \in 1..Len(entries) :
     i # j => entries[i].id # entries[j].id

\* C3: entry identity is unique.  No two entries of the collection have the
\* same id (an id given twice within one collection is the shortest case of
\* an id given to a second entry later in the session).
C3_UniqueIds == AllIdsDistinct(logEntries)

\* C4: a side of a numbered entry carries a number (a positive integer) if
\* and only if the entry has the marker of that side and a parsed timestamp
\* for it.
C4_NumberIffEvent ==
  LET numbered == numberedEntries
  IN  \A i \in 1..Len(numbered) : \A kind \in Kinds :
         /\ NumberOf(numbered[i], kind) # 0 <=> HasEvent(numbered[i], kind)
         /\ NumberOf(numbered[i], kind) >= 0

\* C4 witness: an entry whose request marker line had no parsable timestamp
\* (flag true, no request number) next to sides that are numbered.
C4_Witness ==
  LET numbered == numberedEntries
  IN  /\ AllIdsDistinct(logEntries)
      /\ Len(numbered) >= 2
      /\ \E i \in 1..Len(numbered) :
           /\ numbered[i].hasRequest
           /\ numbered[i].requestTimestamp = Undefined
           /\ numbered[i].requestNumber = 0
           /\ numbered[i].responseNumber > 0
      /\ \E i \in 1..Len(numbered) : numbered[i].requestNumber > 0

\* The members of all groups, group after group.
RECURSIVE Members(_)
Members(groups) ==
  IF groups = << >> THEN << >>
  ELSE Head(groups).entries \o Members(Tail(groups))

Count(seq, x) == Cardinality({i \in 1..Len(seq) : seq[i] = x})

\* The numbers held by the members of a group.
GroupNumbers(group) ==
  UNION {{group.entries[k].requestNumber, group.entries[k].responseNumber}
           : k \in 1..Len(group.entries)} \ {0}

RangesOverlap(a, b) ==
  ~(getEntryRange(a).max < getEntryRange(b).min
    \/ getEntryRange(a).min > getEntryRange(b).max)

\* The positions of the members of a group that a chain of pairwise
\* overlapping ranges links to the members at the positions S.
RECURSIVE Linked(_, _)
Linked(group, S) ==
  LET T == S \cup {b \in 1..Len(group.entries) :
                     \E a \in S : RangesOverlap(group.entries[a],
                                                group.entries[b])}
  IN  IF T = S THEN S ELSE Linked(group, T)

\* C5: grouping coverage.  No group is empty and every numbered entry
\* occurs in the groups exactly as often as in the collection, i.e. each
\* entry is a member of exactly one group and the groups hold nothing else.
C5_GroupingCoverage ==
  LET numbered == numberedEntries
      groups == getTableGroups(numbered)
      members == Members(groups)
  IN  /\ \A g \in 1..Len(groups) : Len(groups[g].entries) >= 1
      /\ Len(members) = Len(numbered)
      /\ \A i \in 1..Len(numbered) :
            Count(members, numbered[i]) = Count(numbered, numbered[i])

\* C5 witness: three entries in two groups, one group with two members and
\* one entry without numbers.
C5_Witness ==
  LET numbered == numberedEntries
      groups == getTableGroups(numbered)
  IN  /\ AllIdsDistinct(logEntries)
      /\ Len(numbered) = 3
      /\ Len(groups) = 2
      /\ \E g \in 1..Len(groups) : Len(groups[g].entries) = 2
      /\ \E i \in 1..3 : getEntryNumbers(numbered[i]) = << >>

\* C6 as stated: in every group all numbers of the members lie within
\* [minNumber, maxNumber], minNumber is the smallest number held by a member
\* and maxNumber the largest.
C6_TightRangeAllGroups ==
  LET groups == tableGroups
  IN  \A g \in 1..Len(groups) :
         LET numbers == GroupNumbers(groups[g])
         IN  /\ \A n \in numbers :
                  groups[g].minNumber <= n /\ n <= groups[g].maxNumber
             /\ groups[g].minNumber \in numbers
             /\ groups[g].maxNumber \in numbers

\* C6 amended: in every group with a member that holds a number, all numbers
\* of the members lie within [minNumber, maxNumber], minNumber is the
\* smallest and maxNumber the largest of them; a group whose members hold no
\* number has minNumber = maxNumber = 0.
C6_TightRange ==
  LET groups == tableGroups
  IN  \A g \in 1..Len(groups) :
         LET numbers == GroupNumbers(groups[g])
         IN  IF numbers # {}
             THEN /\ groups[g].minNumber = Min(numbers)
                  /\ groups[g].maxNumber = Max(numbers)
             ELSE groups[g].minNumber = 0 /\ groups[g].maxNumber = 0

\* C6 witness: a group that a joining entry widened beyond the range of its
\* first member, next to a group without numbers.
C6_Witness ==
  LET groups == tableGroups
  IN  /\ AllIdsDistinct(logEntries)
      /\ \E g \in 1..Len(groups) :
           /\ Len(groups[g].entries) >= 2
           /\ groups[g].maxNumber > getEntryRange(groups[g].entries[1]).max
      /\ \E g \in 1..Len(groups) : GroupNumbers(groups[g]) = {}

\* C7: any two members of a group are linked by a chain of members of that
\* group in which the ranges of neighbours overlap.
C7_ChainConnected ==
  LET groups == tableGroups
  IN  \A g \in 1..Len(groups) :
         \A a \in 1..Len(groups[g].entries) :
            Linked(groups[g], {a}) = 1..Len(groups[g].entries)

\* C7 witness: a group with two members whose ranges do not overlap each
\* other, so that only a chain through a third member links them.
C7_Witness ==
  LET groups == tableGroups
  IN  /\ AllIdsDistinct(logEntries)
      /\ \E g \in 1..Len(groups) :
            \E a \in 1..Len(groups[g].entries) :
               \E b \in 1..Len(groups[g].entries) :
                  /\ a # b
                  /\ ~RangesOverlap(groups[g].entries[a], groups[g].entries[b])

\* C8: an entry without request number and without response number is the
\* only member of its group.
C8_UnnumberedIsolated ==
  LET groups == tableGroups
  IN  \A g \in 1..Len(groups) :
         \A k \in 1..Len(groups[g].entries) :
            getEntryNumbers(groups[g].entries[k]) = << >>
              => Len(groups[g].entries) = 1

\* C8 witness: two entries without numbers (the first without any marker
\* phrase) submitted around an entry with numbers.
C8_Witness ==
  LET numbered == numberedEntries
  IN  /\ AllIdsDistinct(logEntries)
      /\ Len(numbered) = 3
      /\ getEntryNumbers(numbered[1]) = << >>
      /\ getEntryNumbers(numbered[2]) # << >>
      /\ getEntryNumbers(numbered[3]) = << >>
      /\ ~numbered[1].hasRequest

\* C9: clear yields the empty state.  A step of clearAllData ends with an
\* empty entry collection, no chat messages, no numbered entries, no groups
\* and no connector, and a Resolver run on that state draws none; on an
\* already empty collection it changes none of these; and while the
\* collection is empty no Resolver run leaves a connector.
C9_ClearYieldsEmpty ==
  /\ [][lastOp' \in {"clear", "clearEmpty"} =>
          /\ logEntries' = << >>
          /\ chatMessages' = << >>
          /\ getNumberedEntries(logEntries') = << >>
          /\ getTableGroups(getNumberedEntries(logEntries')) = << >>
          /\ svgLines' = << >>
          /\ drawConnectingLines(getTableGroups(getNumberedEntries(logEntries')),
                                 svgLines') = << >>
          /\ (lastOp' = "clearEmpty" =>
                UNCHANGED <<logEntries, chatMessages, svgLines>>)]_vars
  /\ [](logEntries = << >> => svgLines = << >>)

\* C9 witness: clearAllData has just emptied a non-empty collection.
C9_Witness ==
  /\ lastOp = "clear"
  /\ logEntries = << >>
  /\ chatMessages = << >>
  /\ svgLines = << >>

\* C10: a call of handleSendMessage with an empty or whitespace-only text
\* changes neither the entry collection (and with it the numbered entries
\* and the groups, which are computed from it alone) nor the chat messages,
\* the input text, the pending timer or the drawn connectors.
C10_BlankRejected ==
  [][(lastOp' = "send" /\ TrimIsEmpty(inputText)) =>
        UNCHANGED <<logEntries, chatMessages, inputText, clock, timer,
                    svgLines>>]_vars

\* C10 witness: handleSendMessage was called on a whitespace-only text
\* while the collection held entries (an accepted call leaves the input
\* text empty, so this call was rejected).
C10_Witness ==
  /\ lastOp = "send"
  /\ inputText = WhitespaceText
  /\ Len(logEntries) >= 1

\* The number of events of the entry new that precede an event with the
\* timestamp t in the chronological order: the events of new follow every
\* event of an older entry in the event list, and the sort is stable, so
\* these are the events of new that are strictly earlier than t.
NewEventsBefore(new, t) ==
  Cardinality({k \in Kinds : HasEvent(new, k) /\ TimeOf(new, k) < t})

\* An accepted submission: handleSendMessage appended an entry.
Submitted == lastOp' = "send" /\ Len(logEntries') = Len(logEntries) + 1

\* C11: full renumbering on insert.  When an entry is submitted to a
\* non-empty collection, the number of each event that existed before is
\* its old number plus the count of the new entry's events that precede it
\* in the chronological order; and a new entry whose only event is earlier
\* than every existing event gets the number 1.
C11_RenumberOnInsert ==
  [][(Submitted /\ logEntries # << >>) =>
        LET before == numberedEntries
            after == getNumberedEntries(logEntries')
            new == logEntries'[Len(logEntries')]
            newKinds == {k \in Kinds : HasEvent(new, k)}
        IN  /\ \A s \in EventSlots :
                 NumberOf(after[s[1]], s[2])
                   = NumberOf(before[s[1]], s[2])
                       + NewEventsBefore(new, TimeOf(logEntries[s[1]], s[2]))
            /\ \A k \in newKinds :
                 (/\ newKinds = {k}
                  /\ \A s \in EventSlots :
                        TimeOf(new, k) < TimeOf(logEntries[s[1]], s[2]))
                   => NumberOf(after[Len(after)], k) = 1]_vars

\* The event of slot s1 comes before the event of slot s2 in the event list
\* of the Sequencer: entries in submission order, within one entry the
\* request before the response.
ListedBefore(s1, s2) ==
  \/ s1[1] < s2[1]
  \/ (s1[1] = s2[1] /\ s1[2] = "request" /\ s2[2] = "response")

\* C12: ties are broken by input order.  Of two events with equal
\* timestamps the one that comes first in the event list has the smaller
\* number, and no two entries have the same number for the same kind.
C12_TiesByInputOrder ==
  LET numbered == numberedEntries
      slots == EventSlots
  IN  /\ \A s1 \in slots : \A s2 \in slots :
            (/\ TimeOf(logEntries[s1[1]], s1[2])
                  = TimeOf(logEntries[s2[1]], s2[2])
             /\ ListedBefore(s1, s2))
              => NumberOf(numbered[s1[1]], s1[2])
                   < NumberOf(numbered[s2[1]], s2[2])
      /\ \A s1 \in slots : \A s2 \in slots :
            (s1[1] # s2[1] /\ s1[2] = s2[2])
              => NumberOf(numbered[s1[1]], s1[2])
                   # NumberOf(numbered[s2[1]], s2[2])

\* A mutation of the entry collection: a step that sets logEntries, i.e. an
\* accepted submission or clearAllData.
Mutation == Submitted \/ lastOp' \in {"clear", "clearEmpty"}

\* A run of the deferred Resolver: the only step that shortens the list of
\* pending timers.
DeferredRun == Len(timer') < Len(timer)

\* C13: cancel-and-restart of the deferred Resolver.  At most one deferred
\* run is pending at any time; a mutation of the entry collection leaves
\* exactly one pending run, with the full delay ahead of it, whatever was
\* pending before; and a deferred run leaves no further run pending and
\* draws the connectors of the layout of the entry collection as it is then
\* (the run itself leaves the collection as it is).
C13_CancelAndRestart ==
  /\ [](Len(timer) <= 1)
  /\ [][Mutation => timer' = <<"fresh">>]_vars
  /\ [][DeferredRun =>
          /\ timer' = << >>
          /\ logEntries' = logEntries
          /\ svgLines' = drawConnectingLines(tableGroups, svgLines)]_vars

\* C13 witness: two entries were submitted before any Resolver run (a run
\* on the first entry alone would have drawn the connector 1-2) and a single
\* run, now due, is pending.
C13_Witness ==
  /\ Len(logEntries) = 2
  /\ logEntries[1].rawText = TextWide
  /\ AllIdsDistinct(logEntries)
  /\ svgLines = << >>
  /\ timer = <<"due">>

\* The pending run is put off: a timer that was due is replaced by one that
\* has its 300 ms still ahead.
Postponed ==
  /\ timer # << >> /\ Head(timer) = "due"
  /\ timer' # << >> /\ Head(timer') = "fresh"

\* C14, the part about events that do not mutate the entry collection: a
\* step that is neither a submission nor a clear (an edit of the input
\* text, a window resize, the passing of time) never puts off the run that
\* is pending for a non-empty collection.
C14_OnlyMutationsPostpone ==
  [][(logEntries # << >> /\ ~Mutation /\ logEntries' = logEntries)
        => ~Postponed]_vars

\* C15: a window resize runs only the Resolver.  A step of handleResize
\* leaves the entry collection unchanged, and with it every request and
\* response number and the table groups, which are computed from the
\* collection alone; it sets no state, so nothing is rendered again (the
\* Sequencer and the Grouper do not run) and the redraw effect with its
\* pending timer is left alone; the connectors are drawn anew from the
\* layout as it is.
C15_ResizeOnlyRedraws ==
  [][lastOp' = "resize" =>
        /\ UNCHANGED <<logEntries, chatMessages, inputText, clock, timer>>
        /\ svgLines' = drawConnectingLines(tableGroups, svgLines)]_vars

\* C15 witness: a resize has drawn the connectors of a collection of two
\* entries while the deferred run for it is still pending.
C15_Witness ==
  /\ lastOp = "resize"
  /\ Len(logEntries) = 2
  /\ svgLines # << >>
  /\ timer = <<"due">>

\* The meridiem marker of a timestamp text without regard to letter case.
UpperCase(m) ==
  IF m \in {"AM", "am", "Am", "aM"} THEN "AM"
  ELSE IF m \in {"PM", "pm", "Pm", "pM"} THEN "PM"
  ELSE m

\* The hour of the 24-hour clock for an hour h of the 12-hour clock.
Hour24(h, ampm) ==
  IF ampm = "AM" THEN (IF h = 12 THEN 0 ELSE h)
  ELSE (IF h = 12 THEN 12 ELSE h + 12)

\* C16: the Timestamp Parser.  For a line with a timestamp text whose
\* meridiem marker is written in any letter case, parseTimestamp returns a
\* timestamp, whose hour is the given hour for 1-11 AM, 0 for 12 AM, the
\* given hour plus 12 for 1-11 PM and 12 for 12 PM; for a line without a
\* timestamp text it returns none.  (Every submitted text is one request
\* line, so the request timestamp of the entry is what parseTimestamp
\* returned for that line.)
C16_ParsesAnyCase ==
  \A i \in 1..Len(logEntries) :
     LET line == logEntries[i].rawText[1]
     IN  /\ parseTimestamp(line) = logEntries[i].requestTimestamp
         /\ parseTimestamp(line) =
              IF line.stamp = NoStamp THEN Undefined
              ELSE Hour24(line.stamp.hour, UpperCase(line.stamp.ampm))

\* The groups that have a member with a number.
NumberedGroups(groups) ==
  {g \in 1..Len(groups) : GroupNumbers(groups[g]) # {}}

\* C17: the first-fit pass gives the partition of a full interval merge.
\* The ranges [minNumber, maxNumber] of two distinct groups with numbered
\* members are disjoint, and two entries whose number ranges overlap are
\* members of the same group.
C17_SameAsIntervalMerge ==
  LET groups == tableGroups
      numbered == NumberedGroups(groups)
  IN  /\ \A g \in numbered : \A h \in numbered :
            g # h => \/ groups[g].maxNumber < groups[h].minNumber
                     \/ groups[h].maxNumber < groups[g].minNumber
      /\ \A g \in 1..Len(groups) : \A h \in 1..Len(groups) :
            \A a \in 1..Len(groups[g].entries) :
               \A b \in 1..Len(groups[h].entries) :
                  RangesOverlap(groups[g].entries[a], groups[h].entries[b])
                    => g = h

\* C17 witness: three entries with distinct ids in two groups with numbers,
\* one of them with two members, the second of which reaches beyond the
\* range of the first.
C17_Witness ==
  LET groups == tableGroups
  IN  /\ AllIdsDistinct(logEntries)
      /\ Len(logEntries) = 3
      /\ Cardinality(NumberedGroups(groups)) = 2
      /\ \E g \in 1..Len(groups) :
           /\ Len(groups[g].entries) = 2
           /\ getEntryRange(groups[g].entries[2]).max
                > getEntryRange(groups[g].entries[1]).max

\* A run of the Resolver: the callback of the redraw timer or the resize
\* listener.
ResolverRun == DeferredRun \/ lastOp' = "resize"

\* C18: the connectors of a Resolver run.  When the Resolver runs on the
\* layout of a collection with E >= 1 events, it leaves exactly E - 1
\* connectors: one from the label n to the label n + 1 for every n with
\* 1 <= n < E, and none between labels that do not differ by exactly 1.
C18_ConnectorsDense ==
  [][ResolverRun =>
        LET E == Cardinality(EventSlots)
            drawn == svgLines'
        IN  E >= 1 =>
              /\ Len(drawn) = E - 1
              /\ \A k \in 1..Len(drawn) : drawn[k].to = drawn[k].from + 1
              /\ \A n \in 1..(E - 1) :
                    Cardinality({k \in 1..Len(drawn) :
                                   drawn[k].from = n /\ drawn[k].to = n + 1})
                      = 1]_vars

====
